---- MODULE Spec2Model ----
(***************************************************************************)
(* Model of the raw-seeders codec combinators (src/src/lib.rs).            *)
(*                                                                         *)
(* A seeder (codec configuration) is a record with a field k naming the    *)
(* Rust type; serialisation produces the sequence of calls the serde       *)
(* Serializer receives, deserialisation drives a serde Deserializer over a *)
(* packed byte input.  The serde engine itself is external: it is modelled *)
(* as the packed engine the library is written for (tuples and structs     *)
(* carry no framing, raw bytes are written raw, a SeqAccess reports the    *)
(* end of the sequence when its count or the input is exhausted).          *)
(***************************************************************************)
EXTENDS Integers, Sequences, FiniteSets, TLC

\* ------------------------------------------------------------------ bounds
MaxLit == 3
MaxInput == 3
MaxLen == 2

\* ----------------------------------------------------------- integer widths
\* usize and u32 values are held as two limbs, value = hi * 2^16 + lo with
\* lo < 2^16, so that no intermediate value exceeds 2^31 - 1.  A u32 has
\* hi < 2^16, a usize may have more.  i32 values are plain integers.
Limb == 256 * 256
USize(k) == [hi |-> k \div Limb, lo |-> k % Limb]
U(hi, lo) == [hi |-> hi, lo |-> lo]

\* ------------------------------------------------------------------ errors
\* One record shape for every error value, so that errors can be compared.
NoError == [kind |-> "none", who |-> "", x |-> USize(0), y |-> USize(0), lit |-> <<>>]

\* de::Error::invalid_length(got, &expecting): who names the visitor whose
\* expecting() text is reported, y the count that text contains (a usize).
InvalidLength(who, got, exp) ==
    [kind |-> "invalid_length", who |-> who, x |-> USize(got), y |-> exp, lit |-> <<>>]

\* de::Error::invalid_value(Unexpected::Unsigned(received), "{expected} in {literal:?}")
InvalidValue(received, expected, literal) ==
    [kind |-> "invalid_value", who |-> "Literal", x |-> USize(received),
     y |-> USize(expected), lit |-> literal]

\* ser::Error::custom / de::Error::custom with the formatted message parts
\* (usize values, USize(0) where the message has none).
Custom(who, x, y) ==
    [kind |-> "custom", who |-> who, x |-> x, y |-> y, lit |-> <<>>]

IsOk(r) == r.err.kind = "none"

\* ------------------------------------------------------------- Vec<Item>
\* A Vec is its length and its elements.  Vectors of up to MaxLen elements
\* hold all of them in items; a vector too long to enumerate (len at the
\* 32-bit limits) holds only its first elements in items.
Vec(s) == [len |-> USize(Len(s)), items |-> s]
VecLen(v) == v.len

\* ------------------------------------------------------- Serializer calls
\* The calls a serde Serializer receives, in order: n is a usize (the
\* declared length), bs the bytes handed over.
Call(op, n, bs) == [op |-> op, n |-> n, bs |-> bs]
SerializeSeqCall(n) == Call("seq", n, <<>>)
SerializeTupleCall(n) == Call("tuple", n, <<>>)
SerializeStructCall(n) == Call("struct", USize(n), <<>>)
SerializeU8Call(b) == Call("u8", USize(1), <<b>>)
SerializeBytesCall(bs) == Call("bytes", USize(Len(bs)), bs)
EndCall == Call("end", USize(0), <<>>)
\* Stands for the further serialize_element calls of a vector of n elements
\* that is too long to enumerate (the elements beyond v.items).
RestElementsCall(n) == Call("elements", n, <<>>)

SerOk(calls) == [err |-> NoError, out |-> calls]
SerErr(e, calls) == [err |-> e, out |-> calls]

RECURSIVE Flatten(_)
Flatten(ss) == IF ss = <<>> THEN <<>> ELSE Head(ss) \o Flatten(Tail(ss))

\* u64 count as the packed engine writes it in front of a variable-length
\* sequence when it frames sequences (fixed-width little-endian).
CountBytes(n) ==
    <<n.lo % 256, n.lo \div 256, n.hi % 256, (n.hi \div 256) % 256,
      (n.hi \div Limb) % 256, n.hi \div (256 * Limb), 0, 0>>

\* The bytes the packed engine emits for one call.  framed tells whether the
\* engine writes a count in front of a serialize_seq sequence.
CallBytes(c, framed) ==
    CASE c.op = "u8" -> c.bs
      [] c.op = "bytes" -> c.bs
      [] c.op = "seq" -> IF framed THEN CountBytes(c.n) ELSE <<>>
      [] OTHER -> <<>>

EngineBytes(calls, framed) ==
    Flatten([i \in 1..Len(calls) |-> CallBytes(calls[i], framed)])

\* ============================================================ serialisation
\* i32::to_le_bytes: the two's-complement bit pattern, least-significant byte
\* first.
i32_to_le_bytes(v) == [k \in 1..4 |-> (v \div (256 ^ (k - 1))) % 256]

\* Faulty variant: most-significant byte first.
u32_to_be_bytes(v) == <<v.hi \div 256, v.hi % 256, v.lo \div 256, v.lo % 256>>

\* u32::to_le_bytes.
u32_to_le_bytes(v) == <<v.lo % 256, v.lo \div 256, v.hi % 256, v.hi \div 256>>

\* <i32 as ByteOrdered>::serialize_le, behind LittleEndianSeeded.
i32_serialize_le(v) == SerOk(<<SerializeBytesCall(i32_to_le_bytes(v))>>)

\* <u32 as ByteOrdered>::serialize_le, behind LittleEndianSeeded.
u32_serialize_le(v) == SerOk(<<SerializeBytesCall(u32_to_le_bytes(v))>>)

\* LittleEndianSeeded::serialize: T::serialize_le of the value's type.
LittleEndianSeeded_serialize(ty, v) ==
    IF ty = "i32" THEN i32_serialize_le(v) ELSE u32_serialize_le(v)

\* <u8 as Serialize>::serialize behind SerdeLike (the value serialises itself).
SerdeLike_serialize(v) == SerOk(<<SerializeU8Call(v)>>)

\* Literal::serialize delegates to <[u8] as Serialize>::serialize: serde's
\* collect_seq declares a variable-length sequence with the length as hint,
\* then one u8 element per byte.
Literal_serialize(lit) ==
    SerOk(<<SerializeSeqCall(USize(Len(lit)))>>
          \o [i \in 1..Len(lit) |-> SerializeU8Call(lit[i])]
          \o <<EndCall>>)

\* Faulty variant: the length is truncated to 32 bits (`as u32`).
TryAsU32able_to_wrapping(n) == [err |-> NoError, val |-> U(n.hi % Limb, n.lo)]

\* TryAsU32able::to for usize: cast::u32(usize) fails above u32::MAX.
TryAsU32able_to(n) ==
    IF n.hi >= Limb THEN [err |-> Custom("Overflow", USize(0), USize(0)), val |-> 0]
    ELSE [err |-> NoError, val |-> n]

\* TryAsI32able::to for usize: cast::i32(usize) fails above i32::MAX.
TryAsI32able_to(n) ==
    IF n.hi >= Limb \div 2 THEN [err |-> Custom("Overflow", USize(0), USize(0)), val |-> 0]
    ELSE [err |-> NoError, val |-> n.hi * Limb + n.lo]

RECURSIVE Seeded_serialize(_, _)

\* TryAsU32Seeded::serialize: convert first, then serialise the u32 with the
\* nested seeder.
TryAsU32Seeded_serialize(inner, n) ==
    LET repr == TryAsU32able_to(n)
    IN IF ~IsOk(repr) THEN SerErr(repr.err, <<>>)
       ELSE Seeded_serialize(inner, repr.val)

\* TryAsI32Seeded::serialize.
TryAsI32Seeded_serialize(inner, n) ==
    LET repr == TryAsI32able_to(n)
    IN IF ~IsOk(repr) THEN SerErr(repr.err, <<>>)
       ELSE Seeded_serialize(inner, repr.val)

\* SerTupleable::to / SerTupleNable::to: `for element in self { serialize_element(
\* &item_seeder.seeded(element))? }`; returns at the first element that fails,
\* with whatever that element had already written.
RECURSIVE SerElements(_, _, _)
SerElements(item, elems, acc) ==
    IF elems = <<>> THEN SerOk(acc)
    ELSE LET r == Seeded_serialize(item, Head(elems))
         IN IF ~IsOk(r) THEN SerErr(r.err, acc \o r.out)
            ELSE SerElements(item, Tail(elems), acc \o r.out)

\* The element loop over a whole Vec.
SerVecElements(item, v, acc) ==
    LET r == SerElements(item, v.items, acc)
    IN IF IsOk(r) /\ VecLen(v) # USize(Len(v.items))
       THEN SerOk(r.out \o <<RestElementsCall(VecLen(v))>>)
       ELSE r

\* TupleSeeded::serialize: the tuple is declared with the container's own
\* length; the codec holds no arity of its own.
TupleSeeded_serialize(item, v) ==
    LET r == SerVecElements(item, v, <<SerializeTupleCall(VecLen(v))>>)
    IN IF ~IsOk(r) THEN r ELSE SerOk(r.out \o <<EndCall>>)

\* Faulty variant: the count is compared after the elements were written.
TupleNSeeded_serialize_late_check(n, item, v) ==
    LET r == SerVecElements(item, v, <<SerializeTupleCall(VecLen(v))>>)
    IN IF ~IsOk(r) THEN r
       ELSE IF n # VecLen(v) THEN SerErr(Custom("SeqN", n, VecLen(v)), r.out)
       ELSE SerOk(r.out \o <<EndCall>>)

\* TupleNSeeded::serialize: the count is compared with the container's length
\* before serialize_tuple is called.
TupleNSeeded_serialize(n, item, v) ==
    IF n # VecLen(v) THEN SerErr(Custom("SeqN", n, VecLen(v)), <<>>)
    ELSE LET r == SerVecElements(item, v, <<SerializeTupleCall(VecLen(v))>>)
         IN IF ~IsOk(r) THEN r ELSE SerOk(r.out \o <<EndCall>>)

\* Faulty variant: the data field is written before the length field.
LengthPrefixedLayout_serialize_data_first(lengthSeeder, itemSeeder, layout) ==
    LET start == <<SerializeStructCall(2)>>
        d == TupleNSeeded_serialize(layout.length, itemSeeder, layout.data)
    IN IF ~IsOk(d) THEN SerErr(d.err, start \o d.out)
       ELSE LET l == Seeded_serialize(lengthSeeder, layout.length)
            IN IF ~IsOk(l) THEN SerErr(l.err, start \o d.out \o l.out)
               ELSE SerOk(start \o d.out \o l.out \o <<EndCall>>)

\* The derived Serialize of LengthPrefixedLayout { length, data }: a struct of
\* two fields, length through the length seeder, data through
\* TupleN(*length, item_seeder).
LengthPrefixedLayout_serialize(lengthSeeder, itemSeeder, layout) ==
    LET start == <<SerializeStructCall(2)>>
        l == Seeded_serialize(lengthSeeder, layout.length)
    IN IF ~IsOk(l) THEN SerErr(l.err, start \o l.out)
       ELSE LET d == TupleNSeeded_serialize(layout.length, itemSeeder, layout.data)
            IN IF ~IsOk(d) THEN SerErr(d.err, start \o l.out \o d.out)
               ELSE SerOk(start \o l.out \o d.out \o <<EndCall>>)

\* Faulty variant: the layout's length is one more than the Vec's len().
LengthPrefixedSeeded_serialize_off_by_one(lengthSeeder, itemSeeder, v) ==
    LengthPrefixedLayout_serialize(lengthSeeder, itemSeeder,
                                   [length |-> U(VecLen(v).hi, VecLen(v).lo + 1), data |-> v])

\* LengthPrefixedSeeded::serialize: the layout's length is the Vec's len().
LengthPrefixedSeeded_serialize(lengthSeeder, itemSeeder, v) ==
    LengthPrefixedLayout_serialize(lengthSeeder, itemSeeder,
                                   [length |-> VecLen(v), data |-> v])

\* An f32 is its sign bit, its 8 exponent bits and its 23 mantissa bits.
\* <f32 as IEEE754able>::to: self.to_bits(), the u32 sign * 2^31 + exp * 2^23
\* + man.
f32_to_bits(x) == U(x.sign * (Limb \div 2) + x.exp * 128 + x.man \div Limb, x.man % Limb)

\* IEEE754Seeded::serialize: the bit pattern through the nested repr seeder.
IEEE754Seeded_serialize(repr, x) == Seeded_serialize(repr, f32_to_bits(x))

\* The single-byte character table of the external text codec, as far as the
\* bytes in use go: a function from bytes to code points, -1 where a byte has
\* no mapping.  A String is the sequence of its code points.
TableMaps(table, byte) == table[byte] >= 0
TableHas(table, char) == \E byte \in DOMAIN table : table[byte] = char
TableByte(table, char) == CHOOSE byte \in DOMAIN table : table[byte] = char

\* <String as SerWindows1252able>::to: WINDOWS_1252.encode(self,
\* EncoderTrap::Strict).map_err(ser::Error::custom).
WINDOWS_1252_encode(table, text) ==
    IF \A i \in 1..Len(text) : TableHas(table, text[i])
    THEN [err |-> NoError, val |-> [i \in 1..Len(text) |-> TableByte(table, text[i])]]
    ELSE [err |-> Custom("unrepresentable character", USize(0), USize(0)), val |-> <<>>]

\* Faulty variant: the nested seeder runs before the mapping's result is
\* looked at.
Windows1252Seeded_serialize_unchecked(table, bytes, text) ==
    LET repr == WINDOWS_1252_encode(table, text)
        w == Seeded_serialize(bytes, Vec(repr.val))
    IN IF ~IsOk(repr) THEN SerErr(repr.err, w.out) ELSE w

\* Windows1252Seeded::serialize: self.0.to()?, then the bytes through the
\* nested bytes seeder.
Windows1252Seeded_serialize(table, bytes, text) ==
    LET repr == WINDOWS_1252_encode(table, text)
    IN IF ~IsOk(repr) THEN SerErr(repr.err, <<>>)
       ELSE Seeded_serialize(bytes, Vec(repr.val))

\* SerSeeder::seeded(value).serialize(serializer), by seeder type.
Seeded_serialize(seeder, value) ==
    CASE seeder.k = "Literal" -> Literal_serialize(seeder.lit)
      [] seeder.k = "LittleEndian" -> LittleEndianSeeded_serialize(seeder.ty, value)
      [] seeder.k = "SerdeLike" -> SerdeLike_serialize(value)
      [] seeder.k = "TryAsU32" -> TryAsU32Seeded_serialize(seeder.inner, value)
      [] seeder.k = "TryAsI32" -> TryAsI32Seeded_serialize(seeder.inner, value)
      [] seeder.k = "Tuple" -> TupleSeeded_serialize(seeder.item, value)
      [] seeder.k = "TupleN" -> TupleNSeeded_serialize(seeder.n, seeder.item, value)
      [] seeder.k = "IEEE754" -> IEEE754Seeded_serialize(seeder.repr, value)
      [] seeder.k = "Windows1252" ->
            Windows1252Seeded_serialize(seeder.table, seeder.bytes, value)
      [] seeder.k = "LengthPrefixed" ->
            LengthPrefixedSeeded_serialize(seeder.length, seeder.item, value)

\* ========================================================== deserialisation
\* The Deserializer is the input bytes b and the number p of bytes consumed.
DeOk(v, p) == [err |-> NoError, val |-> v, pos |-> p]
DeErr(e, p) == [err |-> e, val |-> 0, pos |-> p]

\* SeqAccess::next_element_seed answers: an element, the end of the sequence,
\* or the element seed's error.
ElemSome(v, p) == [some |-> TRUE, err |-> NoError, val |-> v, pos |-> p]
ElemNone(p) == [some |-> FALSE, err |-> NoError, val |-> 0, pos |-> p]
ElemErr(e, p) == [some |-> FALSE, err |-> e, val |-> 0, pos |-> p]

RECURSIVE Seed_deserialize(_, _, _)

\* SeqAccess::next_element_seed of the packed engine, for a tuple access of
\* declared length n that has handed out taken elements: the sequence has
\* ended when the declared count is used up or the input is exhausted.
next_element_seed(seed, b, p, n, taken) ==
    IF USize(taken) = n \/ p >= Len(b) THEN ElemNone(p)
    ELSE LET r == Seed_deserialize(seed, b, p)
         IN IF IsOk(r) THEN ElemSome(r.val, r.pos) ELSE ElemErr(r.err, r.pos)

\* Deserializer::deserialize_u8 of the packed engine: one byte.
deserialize_u8(b, p) ==
    IF p >= Len(b) THEN DeErr(Custom("eof", USize(0), USize(0)), p)
    ELSE DeOk(b[p + 1], p + 1)

U8Seed == [k |-> "SerdeLike"]

\* Faulty variant: a differing byte is skipped instead of reported.
Literal_visit_element_lenient(lit, i, r) ==
    IF r.err.kind # "none" THEN DeErr(r.err, r.pos)
    ELSE IF ~r.some THEN DeErr(InvalidLength("Literal", i, USize(Len(lit))), r.pos)
    ELSE DeOk(<<>>, r.pos)

\* The body of the loop in Literal's Visitor::visit_seq for index i, given the
\* cursor's answer r: `?` on the element error, invalid_length(i) at the end
\* of the sequence, invalid_value on a byte that differs.
Literal_visit_element(lit, i, r) ==
    IF r.err.kind # "none" THEN DeErr(r.err, r.pos)
    ELSE IF ~r.some THEN DeErr(InvalidLength("Literal", i, USize(Len(lit))), r.pos)
    ELSE IF lit[i + 1] # r.val THEN DeErr(InvalidValue(r.val, lit[i + 1], lit), r.pos)
    ELSE DeOk(<<>>, r.pos)

\* Literal::deserialize, Visitor::visit_seq: byte i of the literal against
\* element i of the cursor, for i = 0, 1, ...; Ok(()) after the last.
RECURSIVE Literal_visit_seq(_, _, _, _)
Literal_visit_seq(lit, b, p, i) ==
    IF i = Len(lit) THEN DeOk(<<>>, p)
    ELSE LET e == Literal_visit_element(lit, i,
                      next_element_seed(U8Seed, b, p, USize(Len(lit)), i))
         IN IF ~IsOk(e) THEN e ELSE Literal_visit_seq(lit, b, e.pos, i + 1)

\* Literal::deserialize: deserialize_tuple(len, Visitor).
Literal_deserialize(lit, b, p) == Literal_visit_seq(lit, b, p, 0)

\* <[u8; 4] as Deserialize>::deserialize, which deserialize_le reaches through
\* PhantomData: deserialize_tuple(4, ArrayVisitor), four u8 elements.
RECURSIVE Array4_visit_seq(_, _, _)
Array4_visit_seq(b, p, acc) ==
    IF Len(acc) = 4 THEN DeOk(acc, p)
    ELSE LET r == next_element_seed(U8Seed, b, p, USize(4), Len(acc))
         IN IF r.err.kind # "none" THEN DeErr(r.err, r.pos)
            ELSE IF ~r.some
                 THEN DeErr(InvalidLength("array", Len(acc), USize(4)), r.pos)
            ELSE Array4_visit_seq(b, r.pos, Append(acc, r.val))

\* i32::from_le_bytes: the integer whose two's-complement pattern the
\* bytes are.
i32_from_le_bytes(bs) ==
    LET lo == bs[1] + 256 * bs[2]
        hi == bs[3] + 256 * bs[4]
    IN IF hi >= Limb \div 2 THEN (hi - Limb) * Limb + lo ELSE hi * Limb + lo

\* u32::from_le_bytes.
u32_from_le_bytes(bs) == U(bs[3] + 256 * bs[4], bs[1] + 256 * bs[2])

\* <i32 as ByteOrdered>::deserialize_le.
i32_deserialize_le(b, p) ==
    LET r == Array4_visit_seq(b, p, <<>>)
    IN IF ~IsOk(r) THEN r ELSE DeOk(i32_from_le_bytes(r.val), r.pos)

\* <u32 as ByteOrdered>::deserialize_le.
u32_deserialize_le(b, p) ==
    LET r == Array4_visit_seq(b, p, <<>>)
    IN IF ~IsOk(r) THEN r ELSE DeOk(u32_from_le_bytes(r.val), r.pos)

\* LittleEndianSeed::deserialize: T::deserialize_le of the value's type.
LittleEndianSeed_deserialize(ty, b, p) ==
    IF ty = "i32" THEN i32_deserialize_le(b, p) ELSE u32_deserialize_le(b, p)

\* TryAsU32able::from for usize: cast::usize(u32) cannot fail.
TryAsU32able_from(repr) == [err |-> NoError, val |-> repr]

\* TryAsI32able::from for usize: cast::usize(i32) fails below zero.
TryAsI32able_from(repr) ==
    IF repr < 0 THEN [err |-> Custom("Underflow", USize(0), USize(0)), val |-> 0]
    ELSE [err |-> NoError, val |-> USize(repr)]

\* TryAsU32Seed::deserialize: nested seed first, then the conversion.
TryAsU32Seed_deserialize(inner, b, p) ==
    LET r == Seed_deserialize(inner, b, p)
    IN IF ~IsOk(r) THEN r
       ELSE LET c == TryAsU32able_from(r.val)
            IN IF ~IsOk(c) THEN DeErr(c.err, r.pos) ELSE DeOk(c.val, r.pos)

\* TryAsI32Seed::deserialize.
TryAsI32Seed_deserialize(inner, b, p) ==
    LET r == Seed_deserialize(inner, b, p)
    IN IF ~IsOk(r) THEN r
       ELSE LET c == TryAsI32able_from(r.val)
            IN IF ~IsOk(c) THEN DeErr(c.err, r.pos) ELSE DeOk(c.val, r.pos)

\* iter::from_fn(|| match seq.next_element_seed(..) { Ok(next) => next,
\* Err(e) => { error = Err(e); None } }).take(n), collected: pulls until n
\* items are taken, the cursor ends, or the item seed fails (recorded in err).
RECURSIVE TakeElements(_, _, _, _, _)
TakeElements(n, item, b, p, acc) ==
    IF USize(Len(acc)) = n THEN [err |-> NoError, items |-> acc, pos |-> p]
    ELSE LET r == next_element_seed(item, b, p, n, Len(acc))
         IN IF r.err.kind # "none" THEN [err |-> r.err, items |-> acc, pos |-> r.pos]
            ELSE IF ~r.some THEN [err |-> NoError, items |-> acc, pos |-> r.pos]
            ELSE TakeElements(n, item, b, r.pos, Append(acc, r.val))

\* Faulty variant: the collected items are returned without the length check.
TupleN_visit_seq_unchecked(n, item, b, p) ==
    LET t == TakeElements(n, item, b, p, <<>>)
    IN IF t.err.kind # "none" THEN DeErr(t.err, t.pos)
       ELSE DeOk(Vec(t.items), t.pos)

\* TupleNSeed::deserialize, Visitor::visit_seq: collect, `error?`, then the
\* length check.
TupleN_visit_seq(n, item, b, p) ==
    LET t == TakeElements(n, item, b, p, <<>>)
    IN IF t.err.kind # "none" THEN DeErr(t.err, t.pos)
       ELSE IF n # USize(Len(t.items))
            THEN DeErr(InvalidLength("TupleN", Len(t.items), n), t.pos)
       ELSE DeOk(Vec(t.items), t.pos)

\* TupleNSeed::deserialize: deserialize_tuple(self.0, Visitor).
TupleNSeed_deserialize(n, item, b, p) == TupleN_visit_seq(n, item, b, p)

\* Faulty variant: a container of fewer than arity items is returned.
DeTupleable_from_short(arity, t) == DeOk(Vec(t.items), t.pos)

\* <T: Array as DeTupleable>::from over the collected iterator t: items are
\* pushed until the array is full; an iterator that ends first gives
\* invalid_length(vec.len(), "Tuple of N").
DeTupleable_from(arity, t) ==
    IF Len(t.items) < arity
    THEN DeErr(InvalidLength("Tuple", Len(t.items), USize(arity)), t.pos)
    ELSE DeOk(Vec(t.items), t.pos)

\* TupleSeed::deserialize, Visitor::visit_seq: T::from(from_fn(..).take(len))?
\* and Ok(array); the error the closure recorded is not read again.
Tuple_visit_seq(arity, item, b, p) ==
    DeTupleable_from(arity, TakeElements(USize(arity), item, b, p, <<>>))

\* TupleSeed::deserialize: deserialize_tuple(T::len(), Visitor).
TupleSeed_deserialize(arity, item, b, p) == Tuple_visit_seq(arity, item, b, p)

\* Faulty variant: data is whatever the cursor still holds, up to length items.
LengthPrefixedLayout_deserialize_partial(lengthSeeder, itemSeeder, b, p) ==
    LET l == Seed_deserialize(lengthSeeder, b, p)
    IN IF ~IsOk(l) THEN l
       ELSE LET t == TakeElements(l.val, itemSeeder, b, l.pos, <<>>)
            IN IF t.err.kind # "none" THEN DeErr(t.err, t.pos)
               ELSE DeOk([length |-> l.val, data |-> Vec(t.items)], t.pos)

\* The derived DeserializeSeed of LengthPrefixedLayout: the struct's fields in
\* order, length through the length seeder, data through TupleN(length, ..).
LengthPrefixedLayout_deserialize(lengthSeeder, itemSeeder, b, p) ==
    LET l == Seed_deserialize(lengthSeeder, b, p)
    IN IF ~IsOk(l) THEN l
       ELSE LET d == TupleNSeed_deserialize(l.val, itemSeeder, b, l.pos)
            IN IF ~IsOk(d) THEN d
               ELSE DeOk([length |-> l.val, data |-> d.val], d.pos)

\* LengthPrefixedSeed::deserialize: the layout's data field.
LengthPrefixedSeed_deserialize(lengthSeeder, itemSeeder, b, p) ==
    LET r == LengthPrefixedLayout_deserialize(lengthSeeder, itemSeeder, b, p)
    IN IF ~IsOk(r) THEN r ELSE DeOk(r.val.data, r.pos)

\* SeqAccess::next_element_seed of the packed engine for a sequence access
\* without a declared length (deserialize_seq): the sequence has ended when
\* the input is exhausted.
seq_next_element_seed(seed, b, p) ==
    IF p >= Len(b) THEN ElemNone(p)
    ELSE LET r == Seed_deserialize(seed, b, p)
         IN IF IsOk(r) THEN ElemSome(r.val, r.pos) ELSE ElemErr(r.err, r.pos)

\* iter::from_fn(|| match seq.next_element_seed(..) { Ok(next) => next,
\* Err(e) => { error = Err(e); None } }) of SeqSeed, collected: pulls until
\* the cursor ends or the item seed fails (recorded in err).
RECURSIVE CollectElements(_, _, _, _)
CollectElements(item, b, p, acc) ==
    LET r == seq_next_element_seed(item, b, p)
    IN IF r.err.kind # "none" THEN [err |-> r.err, items |-> acc, pos |-> r.pos]
       ELSE IF ~r.some THEN [err |-> NoError, items |-> acc, pos |-> r.pos]
       ELSE CollectElements(item, b, r.pos, Append(acc, r.val))

\* <Vec<T> as DeSeqable>::from over the collected iterator t:
\* Ok(items.into_iter().collect()).
DeSeqable_from(t) == DeOk(Vec(t.items), t.pos)

\* SeqSeed::deserialize, Visitor::visit_seq: T::from(from_fn(..))? and
\* Ok(array); the error the closure recorded is not read again.
Seq_visit_seq(item, b, p) == DeSeqable_from(CollectElements(item, b, p, <<>>))

\* SeqSeed::deserialize: deserialize_seq(Visitor).
SeqSeed_deserialize(item, b, p) == Seq_visit_seq(item, b, p)

\* <f32 as IEEE754able>::from: f32::from_bits(repr).
f32_from_bits(repr) ==
    [sign |-> repr.hi \div (Limb \div 2),
     exp |-> (repr.hi \div 128) % 256,
     man |-> (repr.hi % 128) * Limb + repr.lo]

\* Faulty variant: patterns with all exponent bits set (NaN, infinity) are
\* refused.
IEEE754Seed_deserialize_validating(repr, b, p) ==
    LET r == Seed_deserialize(repr, b, p)
    IN IF ~IsOk(r) THEN r
       ELSE IF f32_from_bits(r.val).exp = 255
            THEN DeErr(Custom("not finite", USize(0), USize(0)), r.pos)
       ELSE DeOk(f32_from_bits(r.val), r.pos)

\* IEEE754Seed::deserialize: self.0.seed().deserialize(deserializer).map(T::from).
IEEE754Seed_deserialize(repr, b, p) ==
    LET r == Seed_deserialize(repr, b, p)
    IN IF ~IsOk(r) THEN r ELSE DeOk(f32_from_bits(r.val), r.pos)

\* <String as DeWindows1252able>::from: WINDOWS_1252.decode(repr,
\* DecoderTrap::Strict).map_err(de::Error::custom).
WINDOWS_1252_decode(table, repr) ==
    IF \A i \in 1..Len(repr.items) : TableMaps(table, repr.items[i])
    THEN [err |-> NoError, val |-> [i \in 1..Len(repr.items) |-> table[repr.items[i]]]]
    ELSE [err |-> Custom("invalid sequence", USize(0), USize(0)), val |-> <<>>]

\* Windows1252Seed::deserialize: self.0.seed().deserialize(deserializer)?
\* .pipe(T::from)?.
Windows1252Seed_deserialize(table, bytes, b, p) ==
    LET r == Seed_deserialize(bytes, b, p)
    IN IF ~IsOk(r) THEN r
       ELSE LET c == WINDOWS_1252_decode(table, r.val)
            IN IF ~IsOk(c) THEN DeErr(c.err, r.pos) ELSE DeOk(c.val, r.pos)

\* DeSeeder::seed().deserialize(deserializer), by seeder type.
Seed_deserialize(seeder, b, p) ==
    CASE seeder.k = "Literal" -> Literal_deserialize(seeder.lit, b, p)
      [] seeder.k = "LittleEndian" -> LittleEndianSeed_deserialize(seeder.ty, b, p)
      [] seeder.k = "SerdeLike" -> deserialize_u8(b, p)
      [] seeder.k = "TryAsU32" -> TryAsU32Seed_deserialize(seeder.inner, b, p)
      [] seeder.k = "TryAsI32" -> TryAsI32Seed_deserialize(seeder.inner, b, p)
      [] seeder.k = "Tuple" -> TupleSeed_deserialize(seeder.arity, seeder.item, b, p)
      [] seeder.k = "TupleN" -> TupleNSeed_deserialize(seeder.n, seeder.item, b, p)
      [] seeder.k = "Seq" -> SeqSeed_deserialize(seeder.item, b, p)
      [] seeder.k = "IEEE754" -> IEEE754Seed_deserialize(seeder.repr, b, p)
      [] seeder.k = "Windows1252" ->
            Windows1252Seed_deserialize(seeder.table, seeder.bytes, b, p)
      [] seeder.k = "LengthPrefixed" ->
            LengthPrefixedSeed_deserialize(seeder.length, seeder.item, b, p)

\* ============================================================ state machine
\* One codec call per behaviour, on a fresh writer or cursor (the codecs keep
\* no state between calls): op names the operation run, seeder its codec
\* configuration, arg the value encoded or the input bytes decoded, framed
\* the engine's sequence framing, ret the operation's result.
VARIABLES op, seeder, arg, framed, ret
vars == <<op, seeder, arg, framed, ret>>

Seqs(S, n) == UNION {[1..k -> S] : k \in 0..n}

\* Seeders in use.
LittleEndianU32 == [k |-> "LittleEndian", ty |-> "u32"]
LittleEndianI32 == [k |-> "LittleEndian", ty |-> "i32"]
TryAsU32LE == [k |-> "TryAsU32", inner |-> LittleEndianU32]
TryAsI32LE == [k |-> "TryAsI32", inner |-> LittleEndianI32]
LiteralOf(lit) == [k |-> "Literal", lit |-> lit]
TupleOf(arity, item) == [k |-> "Tuple", arity |-> arity, item |-> item]
TupleNOf(n, item) == [k |-> "TupleN", n |-> n, item |-> item]
LengthPrefixedOf(length, item) == [k |-> "LengthPrefixed", length |-> length, item |-> item]
SeqOf(item) == [k |-> "Seq", item |-> item]
IEEE754Of(repr) == [k |-> "IEEE754", repr |-> repr]
Windows1252Of(table, bytes) == [k |-> "Windows1252", table |-> table, bytes |-> bytes]

\* Inputs.
LitVals == {1, 2, 4}
InputVals == {1, 2, 3}
Literals == Seqs(LitVals, MaxLit)
LiteralInputs == Seqs(InputVals, MaxInput)

\* 0x01020304 is U(258, 772); U(32768, 0) is 2^31, U(65535, 65535) is 2^32 - 1.
U32Vals == {U(0, 0), U(0, 1), U(0, 255), U(0, 256), U(258, 772), U(32767, 65535),
            U(32768, 0), U(65535, 65535)}
I32Vals == {0, 1, -1, 16909060, 2147483647, -2147483647 - 1}
LEBytes == {0, 128, 255}
LEInputs ==
    Seqs(LEBytes, 3)
    \cup {s \o t : s \in [1..4 -> LEBytes] \cup {<<4, 3, 2, 1>>}, t \in {<<>>, <<9>>}}

LengthSeeders == {TryAsU32LE, TryAsI32LE}
ItemSeeders == {U8Seed, LittleEndianU32, TryAsI32LE}

\* Item values per item seeder; U(32768, 0), 2^31, does not fit TryAsI32.
ItemVals(item) ==
    CASE item.k = "SerdeLike" -> {7, 9}
      [] item.k = "LittleEndian" -> {U(0, 1), U(258, 772)}
      [] item.k = "TryAsI32" -> {U(0, 5), U(32768, 0)}

\* Encoded items as found in an input, per item seeder; <<4, 3>> is a cut-off
\* integer, four 255s a negative i32.
ItemChunks(item) ==
    CASE item.k = "SerdeLike" -> {<<7>>, <<9>>}
      [] item.k = "LittleEndian" -> {<<1, 0, 0, 0>>, <<4, 3, 2, 1>>, <<4, 3>>}
      [] item.k = "TryAsI32" -> {<<5, 0, 0, 0>>, <<255, 255, 255, 255>>}

Vecs(item) == {Vec(s) : s \in Seqs(ItemVals(item), MaxLen)}

\* Lengths at the limits of the 32-bit length fields, and vectors of those
\* lengths (their first MaxLen elements enumerated).
\* 2^31 - 1, 2^31, 2^32 - 1, 2^32.
BigLens == {U(32767, 65535), U(32768, 0), U(65535, 65535), U(65536, 0)}
BigVecs(item) ==
    {[len |-> n, items |-> s] : n \in BigLens, s \in [1..MaxLen -> {CHOOSE x \in ItemVals(item) : TRUE}]}

Counts == {USize(k) : k \in 0..(MaxLen + 1)}
ItemInputs(item) == {Flatten(cs) : cs \in Seqs(ItemChunks(item), MaxLen + 1)}
PrefixChunks ==
    {<<k, 0, 0, 0>> : k \in 0..(MaxLen + 1)}
    \cup {<<5, 0, 0, 0>>, <<255, 255, 255, 255>>, <<1, 0>>}

\* Floats: 1.0, 0.0, -0.0, the infinities, a quiet and a signalling NaN, the
\* pattern 0xC2F6E979 (-123.456) and the pattern of all ones.
F32(sign, exp, man) == [sign |-> sign, exp |-> exp, man |-> man]
F32Vals ==
    {F32(0, 127, 0), F32(0, 0, 0), F32(1, 0, 0), F32(0, 255, 0), F32(1, 255, 0),
     F32(0, 255, 4194304), F32(0, 255, 1), F32(1, 133, 7793017), F32(1, 255, 8388607)}
F32Inputs == LEInputs \cup {<<0, 0, 128, 63>>, <<0, 0, 192, 127>>, <<121, 233, 246, 194, 9>>}

\* Text: bytes A, 0x80 and 0x81, the code points A, U+20AC, U+0081 and U+03BB.
\* The table of the WHATWG index maps 0x81 to U+0081; the vendor's table
\* leaves 0x81 without a mapping.  U+03BB is in neither.
TextBytes == {65, 128, 129}
TextChars == {65, 8364, 129, 955}
WhatwgTable == [byte \in TextBytes |-> IF byte = 128 THEN 8364 ELSE byte]
VendorTable == [byte \in TextBytes |-> IF byte = 128 THEN 8364 ELSE IF byte = 129 THEN -1 ELSE byte]
Tables == {WhatwgTable, VendorTable}
BytesSeeder == LengthPrefixedOf(TryAsU32LE, U8Seed)
Texts == Seqs(TextChars, MaxLen)
TextInputs ==
    {pre \o bs : pre \in {<<k, 0, 0, 0>> : k \in 0..(MaxLen + 1)} \cup {<<1, 0>>},
                 bs \in Seqs(TextBytes, MaxLen)}

Init ==
    /\ op = "init"
    /\ seeder = [k |-> "none"]
    /\ arg = <<>>
    /\ framed = FALSE
    /\ ret = SerOk(<<>>)

Serialize(name, s, v, f) ==
    /\ op = "init"
    /\ op' = name
    /\ seeder' = s
    /\ arg' = v
    /\ framed' = f
    /\ ret' = Seeded_serialize(s, v)

Deserialize(name, s, b) ==
    /\ op = "init"
    /\ op' = name
    /\ seeder' = s
    /\ arg' = b
    /\ framed' = FALSE
    /\ ret' = Seed_deserialize(s, b, 0)

LiteralSerialize ==
    \E lit \in Literals, f \in BOOLEAN : Serialize("LiteralSerialize", LiteralOf(lit), <<>>, f)

LiteralDeserialize ==
    \E lit \in Literals, b \in LiteralInputs : Deserialize("LiteralDeserialize", LiteralOf(lit), b)

LittleEndianSerialize ==
    \/ \E v \in U32Vals : Serialize("LittleEndianSerialize", LittleEndianU32, v, FALSE)
    \/ \E v \in I32Vals : Serialize("LittleEndianSerialize", LittleEndianI32, v, FALSE)

LittleEndianDeserialize ==
    \E s \in {LittleEndianU32, LittleEndianI32}, b \in LEInputs :
        Deserialize("LittleEndianDeserialize", s, b)

TryAsSerialize ==
    \E s \in LengthSeeders, n \in Counts \cup BigLens : Serialize("TryAsSerialize", s, n, FALSE)

TryAsDeserialize ==
    \E s \in LengthSeeders, b \in LEInputs : Deserialize("TryAsDeserialize", s, b)

TupleSerialize ==
    \E arity \in 0..(MaxLen + 1), item \in ItemSeeders :
        \E v \in Vecs(item) : Serialize("TupleSerialize", TupleOf(arity, item), v, FALSE)

TupleDeserialize ==
    \E arity \in 0..(MaxLen + 1), item \in ItemSeeders :
        \E b \in ItemInputs(item) : Deserialize("TupleDeserialize", TupleOf(arity, item), b)

TupleNSerialize ==
    \E n \in Counts, item \in ItemSeeders :
        \E v \in Vecs(item) : Serialize("TupleNSerialize", TupleNOf(n, item), v, FALSE)

TupleNDeserialize ==
    \E n \in Counts, item \in ItemSeeders :
        \E b \in ItemInputs(item) : Deserialize("TupleNDeserialize", TupleNOf(n, item), b)

LengthPrefixedSerialize ==
    \E length \in LengthSeeders, item \in ItemSeeders :
        \E v \in Vecs(item) \cup BigVecs(item) :
            Serialize("LengthPrefixedSerialize", LengthPrefixedOf(length, item), v, FALSE)

LengthPrefixedDeserialize ==
    \E length \in LengthSeeders, item \in ItemSeeders :
        \E pre \in PrefixChunks, b \in ItemInputs(item) :
            Deserialize("LengthPrefixedDeserialize", LengthPrefixedOf(length, item), pre \o b)

SeqDeserialize ==
    \E item \in ItemSeeders :
        \E b \in ItemInputs(item) : Deserialize("SeqDeserialize", SeqOf(item), b)

IEEE754Serialize ==
    \E x \in F32Vals : Serialize("IEEE754Serialize", IEEE754Of(LittleEndianU32), x, FALSE)

IEEE754Deserialize ==
    \E b \in F32Inputs : Deserialize("IEEE754Deserialize", IEEE754Of(LittleEndianU32), b)

Windows1252Serialize ==
    \E table \in Tables, text \in Texts :
        Serialize("Windows1252Serialize", Windows1252Of(table, BytesSeeder), text, FALSE)

Windows1252Deserialize ==
    \E table \in Tables, b \in TextInputs :
        Deserialize("Windows1252Deserialize", Windows1252Of(table, BytesSeeder), b)

Next ==
    \/ LiteralSerialize
    \/ LiteralDeserialize
    \/ LittleEndianSerialize
    \/ LittleEndianDeserialize
    \/ TryAsSerialize
    \/ TryAsDeserialize
    \/ TupleSerialize
    \/ TupleDeserialize
    \/ TupleNSerialize
    \/ TupleNDeserialize
    \/ LengthPrefixedSerialize
    \/ LengthPrefixedDeserialize
    \/ SeqDeserialize
    \/ IEEE754Serialize
    \/ IEEE754Deserialize
    \/ Windows1252Serialize
    \/ Windows1252Deserialize

Spec == Init /\ [][Next]_vars

\* The bytes the packed engine has written for the calls in ret.
Wire == EngineBytes(ret.out, framed)

\* ================================================================== claims
\* Helpers of the properties.
Prefix(sq, n) == SubSeq(sq, 1, n)
Min(S) == CHOOSE x \in S : \A y \in S : x <= y

\* A vector all of whose elements are enumerated in items.
Enumerated(v) == v.len = USize(Len(v.items))

\* Every element of v is in the domain of the item seeder's encode.
ItemsEncodable(item, v) ==
    \A i \in 1..Len(v.items) : IsOk(Seeded_serialize(item, v.items[i]))

\* The bytes of the elements of v, each encoded on its own, in index order.
ItemsWire(item, v) ==
    Flatten([i \in 1..Len(v.items) |->
                EngineBytes(Seeded_serialize(item, v.items[i]).out, FALSE)])

\* The four bytes bs are the little-endian digits of the usize/u32 n.
IsLE32(bs, n) ==
    /\ Len(bs) = 4
    /\ \A k \in 1..4 : bs[k] \in 0..255
    /\ bs[1] + 256 * bs[2] = n.lo
    /\ bs[3] + 256 * bs[4] = n.hi

\* C1: for every Vec v (of encodable items, its length fitting the length
\* field), LengthPrefixed encode emits the encoded count len(v) first, then
\* exactly len(v) encoded items in index order, and decoding that output with
\* the same codec yields v.
C1_LengthPrefixedRoundTrip ==
    (op = "LengthPrefixedSerialize" /\ Enumerated(arg) /\ ItemsEncodable(seeder.item, arg)) =>
        /\ IsOk(ret)
        /\ IsLE32(Prefix(Wire, 4), arg.len)
        /\ Wire = Prefix(Wire, 4) \o ItemsWire(seeder.item, arg)
        /\ ret.out[2] = SerializeBytesCall(Prefix(Wire, 4))
        /\ ret.out[3] = SerializeTupleCall(arg.len)
        /\ Seed_deserialize(seeder, Wire, 0) = DeOk(arg, Len(Wire))

C1_Witness ==
    /\ op = "LengthPrefixedSerialize"
    /\ IsOk(ret)
    /\ arg.len = USize(2)
    /\ Len(arg.items) = 2
    /\ arg.items[1] # arg.items[2]
    /\ Seed_deserialize(seeder, Wire, 0).val = arg

\* The smallest index at which input b differs from literal lit or is
\* exhausted; Len(lit) when the first Len(lit) bytes of b equal lit.
FirstBad(lit, b) ==
    Min({i \in 0..Len(lit) : i = Len(lit) \/ i >= Len(b) \/ b[i + 1] # lit[i + 1]})

\* C2: Literal decode succeeds (with unit) exactly when the first N input
\* bytes equal the literal; otherwise it fails at the smallest index i where
\* the input differs or is exhausted, with a value mismatch if byte i
\* differs and with a length error reporting i obtained if the input ended;
\* it reads the mismatching byte and nothing after it.
C2_LiteralDecode ==
    op = "LiteralDeserialize" =>
        LET lit == seeder.lit
            i == FirstBad(lit, arg)
        IN /\ IsOk(ret) <=> (Len(arg) >= Len(lit) /\ Prefix(arg, Len(lit)) = lit)
           /\ IsOk(ret) <=> i = Len(lit)
           /\ IsOk(ret) => ret.val = <<>> /\ ret.pos = Len(lit)
           /\ (i < Len(lit) /\ i < Len(arg)) =>
                 /\ ret.err.kind = "invalid_value"
                 /\ ret.err.x = USize(arg[i + 1])
                 /\ ret.pos = i + 1
           /\ (i < Len(lit) /\ i >= Len(arg)) =>
                 /\ ret.err = InvalidLength("Literal", i, USize(Len(lit)))
                 /\ ret.pos = Len(arg)

C2_Witness ==
    /\ op = "LiteralDeserialize"
    /\ Len(seeder.lit) = 3
    /\ Len(arg) = 3
    /\ FirstBad(seeder.lit, arg) = 1
    /\ ret.err.kind = "invalid_value"
    /\ ret.pos = 2

\* C3: the value-mismatch error of Literal decode identifies the index of the
\* mismatch: two inputs failing against the same literal with the same error
\* mismatch at the same index.
C3_MismatchErrorIdentifiesIndex ==
    (op = "LiteralDeserialize" /\ ret.err.kind = "invalid_value") =>
        \A b2 \in LiteralInputs :
            Literal_deserialize(seeder.lit, b2, 0).err = ret.err
                => FirstBad(seeder.lit, b2) = FirstBad(seeder.lit, arg)

\* The engine shape Literal::deserialize requests: deserialize_tuple(len, ..).
Literal_deserialize_shape(lit) == SerializeTupleCall(USize(Len(lit)))

\* C4: Literal encode writes exactly the configured bytes and nothing else,
\* in the engine shape Literal decode requests (a fixed run of N bytes), so
\* that decoding its output with the same literal succeeds.
C4_LiteralEncodeMatchesDecode ==
    op = "LiteralSerialize" =>
        /\ IsOk(ret)
        /\ Wire = seeder.lit
        /\ ret.out[1] = Literal_deserialize_shape(seeder.lit)
        /\ IsOk(Seed_deserialize(seeder, Wire, 0))

\* C5: LittleEndian encode of a 32-bit integer v writes exactly 4 bytes, byte
\* k being (v / 256^k) mod 256 of v's two's-complement pattern; decode reads
\* exactly 4 bytes and reassembles them; decode(encode(v)) = v; 0x01020304
\* encodes to [4, 3, 2, 1].
C5_LittleEndian ==
    /\ op = "LittleEndianSerialize" =>
          /\ IsOk(ret)
          /\ Len(Wire) = 4
          /\ seeder.ty = "u32" => IsLE32(Wire, arg)
          /\ seeder.ty = "i32" =>
                \A k \in 0..3 : Wire[k + 1] = (arg \div (256 ^ k)) % 256
          /\ (seeder.ty = "u32" /\ arg = U(258, 772)) => Wire = <<4, 3, 2, 1>>
          /\ (seeder.ty = "i32" /\ arg = 16909060) => Wire = <<4, 3, 2, 1>>
          /\ Seed_deserialize(seeder, Wire, 0) = DeOk(arg, 4)
    /\ (op = "LittleEndianDeserialize" /\ Len(arg) >= 4) =>
          /\ IsOk(ret)
          /\ ret.pos = 4
          /\ seeder.ty = "u32" => IsLE32(Prefix(arg, 4), ret.val)
          /\ seeder.ty = "i32" =>
                \A k \in 0..3 : arg[k + 1] = (ret.val \div (256 ^ k)) % 256
    /\ (op = "LittleEndianDeserialize" /\ Len(arg) < 4) =>
          ret.err = InvalidLength("array", Len(arg), USize(4))

C5_Witness ==
    /\ op = "LittleEndianSerialize"
    /\ seeder.ty = "u32"
    /\ arg = U(258, 772)
    /\ Wire = <<4, 3, 2, 1>>

\* C6: Tuple encode of a container whose length differs from the arity the
\* codec is used for fails with a length-mismatch error before anything is
\* written.
C6_TupleEncodeChecksArity ==
    (op = "TupleSerialize" /\ arg.len # USize(seeder.arity)) =>
        /\ ~IsOk(ret)
        /\ ret.out = <<>>

\* The calls of the first k elements of v, each encoded on its own.
ItemsCalls(item, v, k) ==
    Flatten([i \in 1..k |-> Seeded_serialize(item, v.items[i]).out])

\* C7: TupleN encode with count n compares n with the container's length
\* before the tuple is started: if they differ it returns a length-mismatch
\* error and the writer has received nothing; if they agree it starts a tuple
\* of n and writes the n elements in index order (up to an element its item
\* codec rejects).
C7_TupleNEncodeChecksCount ==
    op = "TupleNSerialize" =>
        LET n == seeder.n
            item == seeder.item
            bad == {i \in 1..Len(arg.items) : ~IsOk(Seeded_serialize(item, arg.items[i]))}
        IN /\ n # arg.len => ret = SerErr(Custom("SeqN", n, arg.len), <<>>)
           /\ (n = arg.len /\ bad = {}) =>
                 ret = SerOk(<<SerializeTupleCall(n)>>
                             \o ItemsCalls(item, arg, Len(arg.items)) \o <<EndCall>>)
           /\ (n = arg.len /\ bad # {}) =>
                 /\ ret.err = Seeded_serialize(item, arg.items[Min(bad)]).err
                 /\ ret.out = <<SerializeTupleCall(n)>> \o ItemsCalls(item, arg, Min(bad))

C7_Witness ==
    /\ op = "TupleNSerialize"
    /\ seeder.n = USize(1)
    /\ Len(arg.items) = 2
    /\ ret.err.kind = "custom"
    /\ ret.err.who = "SeqN"
    /\ ret.out = <<>>

\* What the cursor over input b yields from position p with the item seed:
\* one result per element until the input is exhausted, ending with the first
\* element the item seed fails on.
RECURSIVE CursorItems(_, _, _)
CursorItems(item, b, p) ==
    IF p >= Len(b) THEN <<>>
    ELSE LET r == Seed_deserialize(item, b, p)
         IN IF ~IsOk(r) THEN <<r>> ELSE <<r>> \o CursorItems(item, b, r.pos)

AllOk(its, k) == \A i \in 1..k : IsOk(its[i])

LessU(a, b) == a.hi < b.hi \/ (a.hi = b.hi /\ a.lo < b.lo)

\* C8: TupleN decode with count n returns exactly the first n items of the
\* cursor, in order; if the cursor ends after k < n items it fails with a
\* length error reporting k obtained against n expected; if more than n are
\* available it reads n and leaves the rest unread.
C8_TupleNDecodeExactCount ==
    op = "TupleNDeserialize" =>
        LET n == seeder.n
            m == n.lo
            its == CursorItems(seeder.item, arg, 0)
            k == Len(its)
        IN /\ IsOk(ret) =>
                 /\ ret.val.len = n
                 /\ Len(ret.val.items) = m
                 /\ k >= m
                 /\ \A i \in 1..m : ret.val.items[i] = its[i].val
                 /\ ret.pos = IF m = 0 THEN 0 ELSE its[m].pos
           /\ (k >= m /\ AllOk(its, m)) => IsOk(ret)
           /\ (k < m /\ AllOk(its, k)) =>
                 /\ ret.err = InvalidLength("TupleN", k, n)
                 /\ ret.pos = Len(arg)

C8_Witness ==
    /\ op = "TupleNDeserialize"
    /\ seeder.n = USize(2)
    /\ IsOk(ret)
    /\ Len(ret.val.items) = 2
    /\ ret.pos < Len(arg)

\* C9: LengthPrefixed decode succeeds only with a sequence whose length equals
\* the decoded prefix n; when only k < n elements remain it fails with a
\* length error reporting k obtained and n expected and does not return the
\* k-element sequence.
C9_LengthPrefixedDecodeTruncated ==
    op = "LengthPrefixedDeserialize" =>
        LET l == Seed_deserialize(seeder.length, arg, 0)
        IN /\ IsOk(ret) =>
                 /\ IsOk(l)
                 /\ ret.val.len = l.val
                 /\ Enumerated(ret.val)
           /\ IsOk(l) =>
                 LET its == CursorItems(seeder.item, arg, l.pos)
                     k == Len(its)
                 IN (AllOk(its, k) /\ LessU(USize(k), l.val)) =>
                        /\ ~IsOk(ret)
                        /\ ret.err = InvalidLength("TupleN", k, l.val)

C9_Witness ==
    /\ op = "LengthPrefixedDeserialize"
    /\ arg = <<5, 0, 0, 0, 7, 9>>
    /\ seeder.item = U8Seed
    /\ ret.err = InvalidLength("TupleN", 2, USize(5))

\* The length n fits the 32-bit field of the length seeder: at most 2^32 - 1
\* for TryAsU32, at most 2^31 - 1 for TryAsI32.
Fits(lengthSeeder, n) ==
    IF lengthSeeder.k = "TryAsU32" THEN n.hi <= 65535 ELSE n.hi <= 32767

ElementCalls(calls) ==
    {i \in 1..Len(calls) : calls[i].op \in {"tuple", "u8", "bytes", "elements"}}

\* C10: the length field is converted fallibly, never truncated or wrapped.
\* On encode a length that does not fit the field yields a conversion error
\* with no byte of the length field or of any element written, and a length
\* that fits is written as it is; on decode a negative i32 field value under
\* TryAsI32 yields a conversion error and no element is read.
C10_LengthConversionFallible ==
    /\ op = "LengthPrefixedSerialize" =>
          IF Fits(seeder.length, arg.len)
          THEN /\ Len(Wire) >= 4
               /\ IsLE32(Prefix(Wire, 4), arg.len)
          ELSE /\ ret.err = Custom("Overflow", USize(0), USize(0))
               /\ Wire = <<>>
               /\ ElementCalls(ret.out) = {}
    /\ op = "TryAsSerialize" =>
          IF Fits(seeder, arg)
          THEN IsOk(ret) /\ IsLE32(Wire, arg)
          ELSE ret = SerErr(Custom("Overflow", USize(0), USize(0)), <<>>)
    /\ (op = "LengthPrefixedDeserialize" /\ Len(arg) >= 4) =>
          IF seeder.length.k = "TryAsI32" /\ arg[4] >= 128
          THEN /\ ret.err = Custom("Underflow", USize(0), USize(0))
               /\ ret.pos = 4
          ELSE ~(ret.err.kind = "custom" /\ ret.pos = 4)
    /\ (op = "TryAsDeserialize" /\ Len(arg) >= 4) =>
          IF seeder.k = "TryAsI32" /\ arg[4] >= 128
          THEN ret.err = Custom("Underflow", USize(0), USize(0))
          ELSE IsOk(ret) /\ IsLE32(Prefix(arg, 4), ret.val)

C10_Witness ==
    /\ op = "LengthPrefixedSerialize"
    /\ seeder.length.k = "TryAsU32"
    /\ arg.len = U(65536, 0)
    /\ Len(arg.items) > 0
    /\ ret.err.who = "Overflow"
    /\ Wire = <<>>

\* The composite decode of count items from position start meets an element
\* its item seed fails on: the results of the cursor end with a failure at an
\* index below count.
ItemFails(item, b, start, count) ==
    LET its == CursorItems(item, b, start)
    IN /\ Len(its) > 0
       /\ ~IsOk(its[Len(its)])
       /\ LessU(USize(Len(its) - 1), count)

\* The failing element's result.
ItemFailure(item, b, start) ==
    LET its == CursorItems(item, b, start) IN its[Len(its)]

\* C11: when the item seed fails on an element of a Tuple, TupleN or
\* LengthPrefixed decode, the composite fails with exactly that item error (not
\* a length error, not wrapped) and reads nothing after the failing element.
C11_ItemErrorPropagates ==
    /\ (op = "TupleDeserialize"
          /\ ItemFails(seeder.item, arg, 0, USize(seeder.arity))) =>
          /\ ret.err = ItemFailure(seeder.item, arg, 0).err
          /\ ret.pos = ItemFailure(seeder.item, arg, 0).pos
    /\ (op = "TupleNDeserialize" /\ ItemFails(seeder.item, arg, 0, seeder.n)) =>
          /\ ret.err = ItemFailure(seeder.item, arg, 0).err
          /\ ret.pos = ItemFailure(seeder.item, arg, 0).pos
    /\ op = "LengthPrefixedDeserialize" =>
          LET l == Seed_deserialize(seeder.length, arg, 0)
          IN (IsOk(l) /\ ItemFails(seeder.item, arg, l.pos, l.val)) =>
                /\ ret.err = ItemFailure(seeder.item, arg, l.pos).err
                /\ ret.pos = ItemFailure(seeder.item, arg, l.pos).pos

\* The part of C11 that the TupleN and LengthPrefixed decodes meet.
C11_CountedItemErrorPropagates ==
    /\ (op = "TupleNDeserialize" /\ ItemFails(seeder.item, arg, 0, seeder.n)) =>
          ret.err = ItemFailure(seeder.item, arg, 0).err
    /\ op = "LengthPrefixedDeserialize" =>
          LET l == Seed_deserialize(seeder.length, arg, 0)
          IN (IsOk(l) /\ ItemFails(seeder.item, arg, l.pos, l.val)) =>
                ret.err = ItemFailure(seeder.item, arg, l.pos).err

\* A Tuple decode whose second element underflows its item seed and that
\* reports a length error instead.
C11_TupleReplacesItemError ==
    /\ op = "TupleDeserialize"
    /\ seeder.arity = 2
    /\ arg = <<5, 0, 0, 0, 255, 255, 255, 255>>
    /\ ItemFailure(seeder.item, arg, 0).err = Custom("Underflow", USize(0), USize(0))
    /\ ret.err = InvalidLength("Tuple", 1, USize(2))

\* C12: the Windows1252 codec is strict and fails without writing.  Decode
\* decodes the nested byte buffer first (its failure is the result), then
\* maps every byte through the table: the text of the mapped characters if
\* all bytes map, an encoding error (no substitute text) if one does not.
\* Encode fails with an encoding error and an untouched writer if a character
\* is outside the table; otherwise the writer gets what the nested codec
\* writes for the mapped bytes, one byte per character.
C12_Windows1252Strict ==
    /\ op = "Windows1252Deserialize" =>
          LET n == Seed_deserialize(seeder.bytes, arg, 0)
          IN /\ ~IsOk(n) => ret = n
             /\ (IsOk(n) /\ \A i \in 1..Len(n.val.items) :
                                TableMaps(seeder.table, n.val.items[i])) =>
                   /\ IsOk(ret)
                   /\ Len(ret.val) = Len(n.val.items)
                   /\ \A i \in 1..Len(ret.val) : ret.val[i] = seeder.table[arg[4 + i]]
                   /\ ret.pos = n.pos
             /\ (IsOk(n) /\ \E i \in 1..Len(n.val.items) :
                                ~TableMaps(seeder.table, n.val.items[i])) =>
                   /\ ret.err.kind = "custom"
                   /\ ret.err.who = "invalid sequence"
                   /\ ret.pos = n.pos
    /\ op = "Windows1252Serialize" =>
          IF \E i \in 1..Len(arg) : ~TableHas(seeder.table, arg[i])
          THEN /\ ret.err.kind = "custom"
               /\ ret.err.who = "unrepresentable character"
               /\ ret.out = <<>>
               /\ Wire = <<>>
          ELSE /\ IsOk(ret)
               /\ Len(Wire) = 4 + Len(arg)
               /\ IsLE32(Prefix(Wire, 4), USize(Len(arg)))
               /\ \A i \in 1..Len(arg) : seeder.table[Wire[4 + i]] = arg[i]
               /\ ret = Seeded_serialize(seeder.bytes,
                                         Vec([i \in 1..Len(arg) |-> Wire[4 + i]]))

\* A text whose first character maps and whose second does not: the encode
\* fails and nothing has reached the writer.
C12_Witness ==
    /\ op = "Windows1252Serialize"
    /\ Len(arg) = 2
    /\ TableHas(seeder.table, arg[1])
    /\ ~TableHas(seeder.table, arg[2])
    /\ ~IsOk(ret)
    /\ ret.out = <<>>

\* A decode that meets a byte without a mapping after a mapped one.
C12_DecodeWitness ==
    /\ op = "Windows1252Deserialize"
    /\ arg = <<2, 0, 0, 0, 65, 129>>
    /\ seeder.table = VendorTable
    /\ ret.err.who = "invalid sequence"

\* The four bytes bs hold, least-significant byte first, the 32-bit pattern
\* of sign bit, exponent bits and mantissa bits of x.
IsF32Pattern(bs, x) ==
    /\ Len(bs) = 4
    /\ bs[4] = x.sign * 128 + x.exp \div 2
    /\ bs[3] = (x.exp % 2) * 128 + x.man \div 65536
    /\ bs[2] = (x.man \div 256) % 256
    /\ bs[1] = x.man % 256

\* C13: the IEEE754 codec (f32 over a little-endian u32) is the identity on
\* bit patterns.  Encode writes what the nested codec writes for the float's
\* bit pattern, 1.0 giving [0x00, 0x00, 0x80, 0x3F], and decoding the output
\* returns the float with the same bits; decode accepts every 4-byte pattern,
\* NaN and infinity included, returns the float whose bits they are, and
\* fails only as the nested codec fails.
C13_IEEE754BitPattern ==
    /\ op = "IEEE754Serialize" =>
          /\ IsOk(ret)
          /\ IsF32Pattern(Wire, arg)
          /\ ret = Seeded_serialize(seeder.repr, u32_from_le_bytes(Wire))
          /\ arg = F32(0, 127, 0) => Wire = <<0, 0, 128, 63>>
          /\ Seed_deserialize(seeder, Wire, 0) = DeOk(arg, 4)
    /\ op = "IEEE754Deserialize" =>
          LET n == Seed_deserialize(seeder.repr, arg, 0)
          IN /\ Len(arg) >= 4 =>
                   /\ IsOk(ret)
                   /\ ret.pos = 4
                   /\ IsF32Pattern(Prefix(arg, 4), ret.val)
                   /\ EngineBytes(Seeded_serialize(seeder, ret.val).out, FALSE)
                         = Prefix(arg, 4)
             /\ Len(arg) < 4 => ~IsOk(n) /\ ret = n

\* An infinity is decoded from its pattern.
C13_Witness ==
    /\ op = "IEEE754Deserialize"
    /\ arg = <<0, 0, 128, 255>>
    /\ ret = DeOk(F32(1, 255, 0), 4)

\* 1.0 is encoded.
C13_OneWitness ==
    /\ op = "IEEE754Serialize"
    /\ arg = F32(0, 127, 0)
    /\ Wire = <<0, 0, 128, 63>>

\* C14: Tuple decode for arity N returns the first N items of the cursor,
\* decoded in index order with the one item seed; if the cursor ends after
\* k < N items it fails with a length error reporting k obtained; for N = 0
\* it succeeds with the empty container and reads nothing.
C14_TupleDecode ==
    op = "TupleDeserialize" =>
        LET n == seeder.arity
            its == CursorItems(seeder.item, arg, 0)
            k == Len(its)
        IN /\ IsOk(ret) =>
                 /\ ret.val.len = USize(n)
                 /\ Len(ret.val.items) = n
                 /\ k >= n
                 /\ \A i \in 1..n : ret.val.items[i] = its[i].val
                 /\ \A i \in 2..n : its[i] = Seed_deserialize(seeder.item, arg, its[i - 1].pos)
                 /\ ret.pos = IF n = 0 THEN 0 ELSE its[n].pos
           /\ (k >= n /\ AllOk(its, n)) => IsOk(ret)
           /\ (k < n /\ AllOk(its, k)) =>
                 /\ ret.err = InvalidLength("Tuple", k, USize(n))
                 /\ ret.pos = Len(arg)
           /\ n = 0 => ret = DeOk(Vec(<<>>), 0)

\* Two different items are decoded in order and a third is left unread.
C14_Witness ==
    /\ op = "TupleDeserialize"
    /\ seeder.arity = 2
    /\ arg = <<7, 9, 7>>
    /\ ret = DeOk(Vec(<<7, 9>>), 2)

\* The cursor ends after one of two items.
C14_ShortWitness ==
    /\ op = "TupleDeserialize"
    /\ seeder.arity = 2
    /\ arg = <<4, 3, 2, 1>>
    /\ seeder.item = LittleEndianU32
    /\ ret.err = InvalidLength("Tuple", 1, USize(2))

\* Arity 0 over a non-empty input.
C14_EmptyWitness ==
    /\ op = "TupleDeserialize"
    /\ seeder.arity = 0
    /\ Len(arg) > 0
    /\ ret = DeOk(Vec(<<>>), 0)

\* C15: Seq decode succeeds only when the cursor reported its end: the
\* result is then every item the cursor yielded, in order.  If the item seed
\* fails on an element, Seq decode fails with that item's error and does not
\* return the items before it as a successful sequence.
C15_SeqDecodeUntilEnd ==
    op = "SeqDeserialize" =>
        LET its == CursorItems(seeder.item, arg, 0)
            k == Len(its)
        IN /\ IsOk(ret) =>
                 /\ AllOk(its, k)
                 /\ ret.val = Vec([i \in 1..k |-> its[i].val])
                 /\ ret.pos = Len(arg)
           /\ AllOk(its, k) => IsOk(ret)
           /\ (k > 0 /\ ~IsOk(its[k])) => ret.err = its[k].err

\* The part of C15 that Seq decode meets: a cursor whose items all decode
\* is collected whole, in order.
C15_SeqDecodeCollects ==
    op = "SeqDeserialize" =>
        LET its == CursorItems(seeder.item, arg, 0)
            k == Len(its)
        IN AllOk(its, k) =>
              /\ ret = DeOk(Vec([i \in 1..k |-> its[i].val]), Len(arg))
              /\ \A i \in 2..k : its[i] = Seed_deserialize(seeder.item, arg, its[i - 1].pos)

\* A Seq decode whose second element underflows its item seed and that
\* returns the first element as the whole sequence.
C15_SeqReturnsTruncated ==
    /\ op = "SeqDeserialize"
    /\ arg = <<5, 0, 0, 0, 255, 255, 255, 255>>
    /\ ItemFailure(seeder.item, arg, 0).err = Custom("Underflow", USize(0), USize(0))
    /\ ret = DeOk(Vec(<<USize(5)>>), 8)

\* The elements of v before the first one the item seeder rejects.
EncodableBefore(item, v) ==
    Min({i \in 1..(Len(v.items) + 1) :
            i = Len(v.items) + 1 \/ ~IsOk(Seeded_serialize(item, v.items[i]))}) - 1

\* C16: in LengthPrefixed encode the inner TupleN gets the container's own
\* length as its count, so its length-mismatch check never fails: the encode
\* fails only through the length conversion or an item seeder; the tuple is
\* declared with the length that the prefix holds, and when the encode
\* succeeds the number of elements written after the prefix is that length.
C16_LengthPrefixedCountIsLength ==
    op = "LengthPrefixedSerialize" =>
        LET item == seeder.item
            m == EncodableBefore(item, arg)
        IN /\ ~(ret.err.kind = "custom" /\ ret.err.who = "SeqN")
           /\ TupleNSeeded_serialize(arg.len, item, arg).err.who # "SeqN"
           /\ ~Fits(seeder.length, arg.len) =>
                 ret = SerErr(Custom("Overflow", USize(0), USize(0)),
                              <<SerializeStructCall(2)>>)
           /\ (Fits(seeder.length, arg.len) /\ m < Len(arg.items)) =>
                 /\ ret.err = Seeded_serialize(item, arg.items[m + 1]).err
                 /\ ret.out[3] = SerializeTupleCall(arg.len)
                 /\ Len(ret.out) = 3 + m
           /\ (Fits(seeder.length, arg.len) /\ m = Len(arg.items)) =>
                 /\ IsOk(ret)
                 /\ IsLE32(ret.out[2].bs, arg.len)
                 /\ ret.out[3] = SerializeTupleCall(arg.len)
                 /\ Enumerated(arg) =>
                       /\ Len(ret.out) = 5 + Len(arg.items)
                       /\ u32_from_le_bytes(Prefix(Wire, 4)) = USize(Len(ret.out) - 5)
                       /\ \A i \in 1..Len(arg.items) :
                             ret.out[3 + i] = Seeded_serialize(item, arg.items[i]).out[1]
                 /\ ~Enumerated(arg) =>
                       ret.out[4 + Len(arg.items)] = RestElementsCall(arg.len)

\* Two elements are written after a prefix that holds 2.
C16_Witness ==
    /\ op = "LengthPrefixedSerialize"
    /\ IsOk(ret)
    /\ Prefix(Wire, 4) = <<2, 0, 0, 0>>
    /\ ret.out[3] = SerializeTupleCall(USize(2))
    /\ Len(ret.out) = 7

\* An encode that fails through its item seeder, after the prefix.
C16_ItemWitness ==
    /\ op = "LengthPrefixedSerialize"
    /\ Fits(seeder.length, arg.len)
    /\ EncodableBefore(seeder.item, arg) = 1
    /\ Len(arg.items) = 2
    /\ ret.err = Custom("Overflow", USize(0), USize(0))
    /\ Len(ret.out) = 4

====
